---- MODULE Spec2Model ----
(***************************************************************************)
(* Model of sesdev.py: the role-list parser (_parse_roles), the settings   *)
(* derivation (_gen_settings_dict), the create commands, the cluster       *)
(* status fold of the list command, the confirmation guard of destroy and  *)
(* redeploy, the commands that only call the external engine, and the      *)
(* options of the command group.                                           *)
(*                                                                         *)
(* Python strings that are parsed are sequences of one-character strings.  *)
(* Optional values are sequences of length 0 (None) or 1 (a value).        *)
(***************************************************************************)
EXTENDS Integers, Sequences, FiniteSets, TLC

VARIABLES cmd, text, rl, parsed, nodes, st, kwargs, flags, gen, settings_dict, err, calls,
          group, GlobalSettings, logging, args, passed

vars == <<cmd, text, rl, parsed, nodes, st, kwargs, flags, gen, settings_dict, err, calls,
          group, GlobalSettings, logging, args, passed>>

\* ------------------------------------------------------------------ bounds
MaxLen == 5          \* longest role text given to _parse_roles directly
MaxRolesLen == 3     \* longest --roles text given to a create command
MaxGroups == 2       \* most nodes of a rendered RoleList
MaxRolesPerNode == 2 \* most roles of a node of a rendered RoleList
MaxNodes == 3        \* most nodes of a deployment shown by list
MaxDisks == 4        \* largest --num-disks value

\* ------------------------------------------------------------ Python values
None == <<>>
Some(x) == <<x>>

Alphabet == {"[", "]", ",", " ", "a", "b"}

Texts(n) == UNION {[1..k -> Alphabet] : k \in 0..n}

\* str.strip(): drop leading and trailing whitespace
RECURSIVE lstrip(_)
lstrip(s) == IF s # <<>> /\ Head(s) = " " THEN lstrip(Tail(s)) ELSE s

RECURSIVE rstrip(_)
rstrip(s) == IF s # <<>> /\ s[Len(s)] = " " THEN rstrip(SubSeq(s, 1, Len(s) - 1)) ELSE s

strip(s) == rstrip(lstrip(s))

startswith(s, c) == s # <<>> /\ s[1] = c

endswith(s, c) == s # <<>> /\ s[Len(s)] = c

\* r[:-1]
DropLast(s) == IF s = <<>> THEN <<>> ELSE SubSeq(s, 1, Len(s) - 1)

\* r[1:]
DropFirst(s) == IF s = <<>> THEN <<>> ELSE Tail(s)

\* str.split(sep): n separators give n + 1 fragments, empty ones included
RECURSIVE split(_, _)
split(s, sep) ==
    IF \A i \in 1..Len(s) : s[i] # sep
    THEN <<s>>
    ELSE LET i == CHOOSE j \in 1..Len(s) : s[j] = sep /\ \A k \in 1..(j - 1) : s[k] # sep
         IN <<SubSeq(s, 1, i - 1)>> \o split(SubSeq(s, i + 1, Len(s)), sep)

\* ------------------------------------------------------------ _parse_roles
\* The lists built by the parser are Python objects: heap holds the node
\* lists in order of creation, _roles holds references into it (the same
\* list can be referenced twice), _node is the current reference (0: None).
ParseInit == [_roles |-> <<>>, heap |-> <<>>, _node |-> 0, err |-> ""]

HeapAppend(p, ref, tok) == [p EXCEPT !.heap[ref] = Append(@, tok)]

\* one iteration of the for loop over the fragments
ParseStep(p, r0) ==
    LET r == strip(r0) IN
    IF p.err # "" THEN p
    ELSE IF startswith(r, "[")
    THEN LET ref == Len(p.heap) + 1
             q == [p EXCEPT !.heap = Append(@, <<>>), !._node = ref]
         IN IF endswith(r, "]")
            THEN [HeapAppend(q, ref, DropFirst(DropLast(r))) EXCEPT !._roles = Append(@, ref)]
            ELSE HeapAppend(q, ref, DropFirst(r))
    ELSE IF endswith(r, "]")
    THEN IF p._node = 0 THEN [p EXCEPT !.err = "AttributeError"]
         ELSE [HeapAppend(p, p._node, DropLast(r)) EXCEPT !._roles = Append(@, p._node)]
    ELSE IF p._node = 0 THEN [p EXCEPT !.err = "AttributeError"]
         ELSE HeapAppend(p, p._node, r)

RECURSIVE ParseLoop(_, _)
ParseLoop(p, frags) ==
    IF frags = <<>> THEN p ELSE ParseLoop(ParseStep(p, Head(frags)), Tail(frags))

StripAll(frags) == [i \in 1..Len(frags) |-> strip(frags[i])]

\* the returned object: err is the exception raised ("" when it returns)
_parse_roles(roles) ==
    LET p == ParseLoop(ParseInit, StripAll(split(roles, ",")))
    IN [err |-> p.err, _roles |-> p._roles, heap |-> p.heap]

\* the value of a list of lists, references resolved
Value(o) == [i \in 1..Len(o._roles) |-> o.heap[o._roles[i]]]

\* ------------------------------------------------- canonical text of a RoleList
\* "[admin, mon, mgr],[storage, mon, mgr, mds]": roles joined by ", ",
\* groups joined by ","
RECURSIVE Join(_, _)
Join(seqs, sep) ==
    IF seqs = <<>> THEN <<>>
    ELSE IF Len(seqs) = 1 THEN seqs[1]
    ELSE seqs[1] \o sep \o Join(Tail(seqs), sep)

RenderNode(node) == <<"[">> \o Join(node, <<",", " ">>) \o <<"]">>

Render(roleList) == Join([i \in 1..Len(roleList) |-> RenderNode(roleList[i])], <<",">>)

Tokens == {<<"a">>, <<"b">>}

NodeRoleSets == UNION {[1..k -> Tokens] : k \in 1..MaxRolesPerNode}

RoleLists == UNION {[1..k -> NodeRoleSets] : k \in 0..MaxGroups}

\* ------------------------------------------------------------ list._status
NodeStates == {"not deployed", "running", "stopped", "suspended"}

AllNames == <<"admin", "node1", "node2", "node3", "node4", "node5">>

NodeNames == {AllNames[i] : i \in 1..MaxNodes}

\* dep.nodes: a dict, iterated in insertion order; its keys are distinct
\* and 'admin' is one of them
NodeDicts ==
    {d \in UNION {[1..k -> [name : NodeNames, status : NodeStates]] : k \in 1..MaxNodes} :
        /\ \A i, j \in 1..Len(d) : d[i].name = d[j].name => i = j
        /\ \E i \in 1..Len(d) : d[i].name = "admin"}

\* nodes['admin'].status
AdminStatus(d) == LET i == CHOOSE j \in 1..Len(d) : d[j].name = "admin" IN d[i].status

StatusStep_order(s, n) ==
    IF n = "running" /\ s # "running" THEN "partially deployed"
    ELSE IF n = "stopped" /\ s = "running" THEN "partially running"
    ELSE IF n = "suspended" /\ s = "running" THEN "partially running"
    ELSE IF n = "running" /\ s = "stopped" THEN "partially running"
    ELSE IF n = "running" /\ s = "suspended" THEN "partially running"
    ELSE s

\* the if/elif chain of the loop body
StatusStep(s, n) ==
    IF n = "running" /\ s = "not deployed" THEN "partially deployed"
    ELSE IF n = "stopped" /\ s = "running" THEN "partially running"
    ELSE IF n = "suspended" /\ s = "running" THEN "partially running"
    ELSE IF n = "running" /\ s = "stopped" THEN "partially running"
    ELSE IF n = "running" /\ s = "suspended" THEN "partially running"
    ELSE s

RECURSIVE StatusLoop(_, _)
StatusLoop(s, d) ==
    IF d = <<>> THEN s ELSE StatusLoop(StatusStep(s, Head(d).status), Tail(d))

_status_first(d) == StatusLoop(d[1].status, d)

_status(d) == StatusLoop(AdminStatus(d), d)

\* ------------------------------------------------------ _gen_settings_dict
EmptyDict == [k \in {} |-> None]

Put(d, k, v) == [x \in DOMAIN d \cup {k} |-> IF x = k THEN v ELSE d[x]]

Has(d, k) == k \in DOMAIN d

SingleNodeRoles == <<
    <<"a", "d", "m", "i", "n">>,
    <<"s", "t", "o", "r", "a", "g", "e">>,
    <<"m", "o", "n">>,
    <<"m", "g", "r">>,
    <<"p", "r", "o", "m", "e", "t", "h", "e", "u", "s">>,
    <<"g", "r", "a", "f", "a", "n", "a">>,
    <<"m", "d", "s">>,
    <<"i", "g", "w">>,
    <<"r", "g", "w">>,
    <<"g", "a", "n", "e", "s", "h", "a">>
>>

openattic == <<"o", "p", "e", "n", "a", "t", "t", "i", "c">>

NoFloor(d, num_disks, single_node) ==
    IF num_disks # None /\ num_disks[1] # 0
    THEN Put(d, "num_disks", num_disks[1])
    ELSE IF single_node THEN Put(d, "num_disks", 3) ELSE d

\* lines 223-228: the disk count and the single-node floor
SetNumDisks(d, num_disks, single_node) ==
    IF num_disks # None /\ num_disks[1] # 0
    THEN Put(d, "num_disks", IF single_node /\ num_disks[1] < 3 THEN 3 ELSE num_disks[1])
    ELSE IF single_node THEN Put(d, "num_disks", 3) ELSE d

\* `if x:` on an optional value whose falsy value is zero
PutIfTruthy(d, k, o, zero) == IF o # None /\ o[1] # zero THEN Put(d, k, o[1]) ELSE d

\* `if x is not None:`
PutIfNotNone(d, k, o) == IF o # None THEN Put(d, k, o[1]) ELSE d

\* the result is [err, d]: the exception raised ("" when it returns) and
\* the dictionary returned
_gen_settings_dict(version, kw) ==
    LET parse == ~kw.single_node /\ kw.roles # None /\ kw.roles[1] # <<>>
        p == IF parse THEN _parse_roles(kw.roles[1]) ELSE [err |-> "", _roles |-> <<>>, heap |-> <<>>]
        d1 == IF parse THEN Put(EmptyDict, "roles", [_roles |-> p._roles, heap |-> p.heap])
              ELSE IF kw.single_node
              THEN Put(EmptyDict, "roles", [_roles |-> <<1>>, heap |-> <<SingleNodeRoles>>])
              ELSE EmptyDict
        d2 == PutIfTruthy(d1, "os", kw.os, "")
        d3 == SetNumDisks(d2, kw.num_disks, kw.single_node)
        d4 == PutIfTruthy(d3, "cpus", kw.cpus, 0)
        d5 == PutIfTruthy(d4, "ram", kw.ram, 0)
        d6 == PutIfTruthy(d5, "disk_size", kw.disk_size, 0)
        d7 == PutIfTruthy(d6, "libvirt_host", kw.libvirt_host, "")
        d8 == PutIfTruthy(d7, "libvirt_user", kw.libvirt_user, "")
        d9 == PutIfTruthy(d8, "libvirt_storage_pool", kw.libvirt_storage_pool, "")
        d10 == PutIfNotNone(d9, "use_deepsea_cli", kw.deepsea_cli)
        d11 == PutIfNotNone(d10, "stop_before_stage", kw.stop_before_deepsea_stage)
        d12 == PutIfTruthy(d11, "deepsea_git_repo", kw.deepsea_repo, "")
        d13 == PutIfTruthy(d12, "deepsea_git_branch", kw.deepsea_branch, "")
        d14 == PutIfNotNone(d13, "version", version)
        d15 == IF kw.repo # <<>> THEN Put(d14, "repos", kw.repo) ELSE d14
        d16 == PutIfTruthy(d15, "vagrant_box", kw.vagrant_box, "")
    IN IF p.err # "" THEN [err |-> p.err, d |-> EmptyDict] ELSE [err |-> "", d |-> d16]

\* ------------------------------------------------------------ the commands
\* One run of the program executes the body of the command group and then
\* one command, and exits: cmd is "init", then "cli" once the group's body
\* has run, then the command's name.

\* `if x:` on an optional string
Truthy(o) == o # None /\ o[1] # ""

\* the options of the group: none given (click's defaults), a log file, a
\* log file with --debug, the two paths with --debug and no log file
DefaultGroup == [work_path |-> None, config_file |-> None, debug |-> FALSE, log_file |-> None]

GroupValues ==
    {DefaultGroup,
     [DefaultGroup EXCEPT !.log_file = Some("sesdev.log")],
     [DefaultGroup EXCEPT !.log_file = Some("sesdev.log"), !.debug = TRUE],
     [DefaultGroup EXCEPT !.work_path = Some("work"), !.config_file = Some("config.yaml"),
                          !.debug = TRUE]}

\* logging.basicConfig: to the file at INFO or DEBUG, else CRITICAL only
LoggingConfig(o) ==
    IF Truthy(o.log_file)
    THEN [filename |-> o.log_file, filemode |-> Some("w"),
          level |-> IF ~o.debug THEN "INFO" ELSE "DEBUG"]
    ELSE [filename |-> None, filemode |-> None, level |-> "CRITICAL"]

\* before basicConfig is called
NoLogging == [filename |-> None, filemode |-> None, level |-> "WARNING"]

\* seslib.GlobalSettings: None stands for the library's own value
LibrarySettings == [WORKING_DIR |-> None, CONFIG_FILE |-> None]

SetGlobalSettings(gs, o) ==
    [WORKING_DIR |-> IF Truthy(o.work_path) THEN o.work_path ELSE gs.WORKING_DIR,
     CONFIG_FILE |-> IF Truthy(o.config_file) THEN o.config_file ELSE gs.CONFIG_FILE]

\* the record of arguments of a command: an argument that the command does
\* not have, or the NODE argument of ssh, stop and start when absent, is None
NoArguments ==
    [node |-> None, service |-> None, remote_port |-> None, local_port |-> None,
     local_address |-> None]

\* the arguments of tunnel at click's defaults: --node 'admin' and
\* --local-address 'localhost', the rest None
TunnelDefaults ==
    [NoArguments EXCEPT !.node = Some("admin"), !.local_address = Some("localhost")]

\* a command without these arguments
NoArgs == args' = NoArguments /\ passed' = <<>>

\* a command leaves what the group's body has set
KeepGroup == UNCHANGED <<group, GlobalSettings, logging>>

\* the body of the command group
cli ==
    /\ cmd = "init"
    /\ \E o \in GroupValues :
        /\ cmd' = "cli"
        /\ group' = o
        /\ logging' = LoggingConfig(o)
        /\ GlobalSettings' = SetGlobalSettings(GlobalSettings, o)
    /\ UNCHANGED <<text, rl, parsed, nodes, st, kwargs, flags, gen, settings_dict, err,
                   calls, args, passed>>

\* click's defaults of the create options
DefaultKwargs ==
    [roles |-> None, os |-> None, vagrant_box |-> None, cpus |-> None, ram |-> None,
     disk_size |-> None, num_disks |-> None, single_node |-> FALSE, repo |-> <<>>,
     deepsea_cli |-> Some(TRUE), stop_before_deepsea_stage |-> None,
     deepsea_repo |-> None, deepsea_branch |-> None, libvirt_host |-> None,
     libvirt_user |-> None, libvirt_storage_pool |-> None]

\* every other option given, some with a falsy value
GivenKwargs ==
    [roles |-> None, os |-> Some("leap-15.2"), vagrant_box |-> Some(""), cpus |-> Some(2),
     ram |-> Some(0), disk_size |-> Some(8), num_disks |-> None, single_node |-> FALSE,
     repo |-> <<"repo1", "repo2">>, deepsea_cli |-> Some(FALSE),
     stop_before_deepsea_stage |-> Some(0), deepsea_repo |-> Some("url"),
     deepsea_branch |-> Some(""), libvirt_host |-> Some("host"),
     libvirt_user |-> Some(""), libvirt_storage_pool |-> Some("pool")]

NumDisksValues == {None} \cup {Some(n) : n \in (0 - 1)..MaxDisks}

RolesValues == {None} \cup {Some(t) : t \in Texts(MaxRolesLen)}

\* the options of a create command: the role text, the disk count and the
\* single-node flag over their whole ranges with the rest at their defaults,
\* and the rest all given with the disk count and the single-node flag over
\* their whole ranges
KwargsValues ==
    {[DefaultKwargs EXCEPT !.roles = r, !.num_disks = n, !.single_node = sn] :
        r \in RolesValues, n \in NumDisksValues, sn \in BOOLEAN}
    \cup {[GivenKwargs EXCEPT !.num_disks = n, !.single_node = sn] :
              n \in NumDisksValues, sn \in BOOLEAN}

\* the defaults of the flags and prompts: --deploy (default True), the
\* confirmation of the deployment (default yes), --use-deepsea (default
\* False), --force (not given) and the answer to its prompt (default no)
DefaultFlags ==
    [deploy |-> TRUE, confirm |-> TRUE, use_deepsea |-> FALSE, force |-> FALSE,
     answer |-> FALSE]

NoObject == [err |-> "", _roles |-> <<>>, heap |-> <<>>]

\* _create_command: the calls made to the external engine
_create_command(deploy, confirm) ==
    <<"Settings", "Deployment.create", "Deployment.status">>
    \o (IF deploy
        THEN IF confirm THEN <<"Deployment.start">> ELSE <<"Deployment.destroy">>
        ELSE <<>>)

\* settings_dict['roles'][0].append("openattic"), guarded by 'roles' in settings_dict
Ses5Augment(g) ==
    IF g.err # "" THEN g
    ELSE IF Has(g.d, "roles")
    THEN IF g.d["roles"]._roles = <<>>
         THEN [err |-> "IndexError", d |-> g.d]
         ELSE [err |-> "",
               d |-> [g.d EXCEPT !["roles"].heap[g.d["roles"]._roles[1]] = Append(@, openattic)]]
    ELSE g

\* ses7: `if use_deepsea:`
Ses7Tool(g, use_deepsea) ==
    IF g.err # "" THEN g
    ELSE IF use_deepsea THEN [g EXCEPT !.d = Put(@, "deployment_tool", "deepsea")] ELSE g

\* octopus: the key is set whatever the flag
OctopusTool(g, use_deepsea) ==
    IF g.err # "" THEN g
    ELSE [g EXCEPT !.d = Put(@, "deployment_tool", "deepsea")]

\* a create command: g is the result of _gen_settings_dict, r the result of
\* the command's own step on it
Create(name, kw, fl, g, r) ==
    /\ cmd' = name
    /\ kwargs' = kw
    /\ flags' = fl
    /\ gen' = g.d
    /\ settings_dict' = r.d
    /\ err' = r.err
    /\ calls' = IF r.err = "" THEN _create_command(fl.deploy, fl.confirm) ELSE <<>>
    /\ NoArgs
    /\ KeepGroup
    /\ text' = <<>>
    /\ rl' = None
    /\ parsed' = NoObject
    /\ nodes' = <<>>
    /\ st' = ""

\* deploy is a flag of every create command; the confirmation is asked only
\* when deploying, and is at its default when it is not asked
CreateFlags(tools) ==
    {fl \in [deploy : BOOLEAN, confirm : BOOLEAN, use_deepsea : tools, force : {FALSE},
             answer : {FALSE}] : ~fl.deploy => fl.confirm = DefaultFlags.confirm}

ses5 ==
    /\ cmd = "cli"
    /\ \E kw \in KwargsValues, fl \in CreateFlags({FALSE}) :
        LET g == _gen_settings_dict(Some("ses5"), kw)
        IN Create("ses5", kw, fl, g, Ses5Augment(g))

ses6 ==
    /\ cmd = "cli"
    /\ \E kw \in KwargsValues, fl \in CreateFlags({FALSE}) :
        LET g == _gen_settings_dict(Some("ses6"), kw)
        IN Create("ses6", kw, fl, g, g)

ses7 ==
    /\ cmd = "cli"
    /\ \E kw \in KwargsValues, fl \in CreateFlags(BOOLEAN) :
        LET g == _gen_settings_dict(Some("ses7"), kw)
        IN Create("ses7", kw, fl, g, Ses7Tool(g, fl.use_deepsea))

nautilus ==
    /\ cmd = "cli"
    /\ \E kw \in KwargsValues, fl \in CreateFlags({FALSE}) :
        LET g == _gen_settings_dict(Some("nautilus"), kw)
        IN Create("nautilus", kw, fl, g, g)

octopus ==
    /\ cmd = "cli"
    /\ \E kw \in KwargsValues, fl \in CreateFlags(BOOLEAN) :
        LET g == _gen_settings_dict(Some("octopus"), kw)
        IN Create("octopus", kw, fl, g, OctopusTool(g, fl.use_deepsea))

\* the --force option: a flag with a prompt; click asks for confirmation
\* when the flag is not given, and the answer is the option's value
ForceValue(force, answer) == IF force THEN TRUE ELSE answer

_abort_if_false_inverted(value) == value

\* TRUE when ctx.abort() is called
_abort_if_false(value) == ~value

Guarded(name, force, answer, body) ==
    LET aborted == _abort_if_false(ForceValue(force, answer)) IN
    /\ cmd' = name
    /\ flags' = [DefaultFlags EXCEPT !.force = force, !.answer = answer]
    /\ err' = IF aborted THEN "Abort" ELSE ""
    /\ calls' = IF aborted THEN <<>> ELSE body
    /\ NoArgs
    /\ KeepGroup
    /\ kwargs' = DefaultKwargs
    /\ gen' = EmptyDict
    /\ settings_dict' = EmptyDict
    /\ text' = <<>>
    /\ rl' = None
    /\ parsed' = NoObject
    /\ nodes' = <<>>
    /\ st' = ""

\* the prompt is shown only when --force is not given
ForceInputs == {<<TRUE, FALSE>>, <<FALSE, TRUE>>, <<FALSE, FALSE>>}

destroy ==
    /\ cmd = "cli"
    /\ \E fa \in ForceInputs :
        Guarded("destroy", fa[1], fa[2], <<"Deployment.load", "Deployment.destroy">>)

redeploy ==
    /\ cmd = "cli"
    /\ \E fa \in ForceInputs :
        Guarded("redeploy", fa[1], fa[2],
                <<"Deployment.load", "Deployment.destroy", "Deployment.create",
                  "Deployment.start">>)

\* list: the status of one deployment returned by Deployment.list
list ==
    /\ cmd = "cli"
    /\ \E d \in NodeDicts :
        /\ cmd' = "list"
        /\ nodes' = d
        /\ st' = _status(d)
        /\ calls' = <<"Deployment.list">>
        /\ NoArgs
        /\ KeepGroup
        /\ err' = ""
        /\ flags' = DefaultFlags
        /\ kwargs' = DefaultKwargs
        /\ gen' = EmptyDict
        /\ settings_dict' = EmptyDict
        /\ text' = <<>>
        /\ rl' = None
        /\ parsed' = NoObject

\* a command that loads the deployment and makes one call on it
Engine(name, a, call, p) ==
    /\ cmd' = name
    /\ args' = a
    /\ calls' = <<"Deployment.load", call>>
    /\ passed' = p
    /\ err' = ""
    /\ KeepGroup
    /\ flags' = DefaultFlags
    /\ kwargs' = DefaultKwargs
    /\ gen' = EmptyDict
    /\ settings_dict' = EmptyDict
    /\ text' = <<>>
    /\ rl' = None
    /\ parsed' = NoObject
    /\ nodes' = <<>>
    /\ st' = ""

\* the optional NODE argument
NodeValues == {None, Some(""), Some("node1")}

\* dep.ssh(node if node else 'admin')
ssh ==
    /\ cmd = "cli"
    /\ \E n \in NodeValues :
        Engine("ssh", [NoArguments EXCEPT !.node = n], "Deployment.ssh",
               <<IF Truthy(n) THEN n ELSE Some("admin")>>)

\* dep.stop(_print_log, node)
stop ==
    /\ cmd = "cli"
    /\ \E n \in NodeValues :
        Engine("stop", [NoArguments EXCEPT !.node = n], "Deployment.stop", <<n>>)

\* dep.start(_print_log, node)
start ==
    /\ cmd = "cli"
    /\ \E n \in NodeValues :
        Engine("start", [NoArguments EXCEPT !.node = n], "Deployment.start", <<n>>)

\* click.echo(dep.status())
info ==
    /\ cmd = "cli"
    /\ Engine("info", NoArguments, "Deployment.status", <<>>)

\* the arguments given to tunnel: each at its default or given
TunnelValues ==
    {[TunnelDefaults EXCEPT !.node = n, !.service = sv, !.remote_port = rp,
                            !.local_port = lp, !.local_address = la] :
        n \in {TunnelDefaults.node, Some("node1")},
        sv \in {TunnelDefaults.service, Some("dashboard"), Some("grafana"), Some("openattic")},
        rp \in {TunnelDefaults.remote_port, Some(0), Some(8080)},
        lp \in {TunnelDefaults.local_port, Some(0), Some(9090)},
        la \in {TunnelDefaults.local_address, Some("0.0.0.0")}}

\* dep.start_port_forwarding(service, node, remote_port, local_port, local_address)
tunnel ==
    /\ cmd = "cli"
    /\ \E a \in TunnelValues :
        Engine("tunnel", a, "Deployment.start_port_forwarding",
               <<a.service, a.node, a.remote_port, a.local_port, a.local_address>>)

Init ==
    /\ cmd = "init"
    /\ group = DefaultGroup
    /\ GlobalSettings = LibrarySettings
    /\ logging = NoLogging
    /\ args = NoArguments
    /\ passed = <<>>
    /\ text = <<>>
    /\ rl = None
    /\ parsed = NoObject
    /\ nodes = <<>>
    /\ st = ""
    /\ kwargs = DefaultKwargs
    /\ flags = DefaultFlags
    /\ gen = EmptyDict
    /\ settings_dict = EmptyDict
    /\ err = ""
    /\ calls = <<>>

Next ==
    \/ cli
    \/ list
    \/ ses5
    \/ ses6
    \/ ses7
    \/ nautilus
    \/ octopus
    \/ destroy
    \/ redeploy
    \/ ssh
    \/ stop
    \/ start
    \/ info
    \/ tunnel

Spec == Init /\ [][Next]_vars

\* ------------------------------------------- _parse_roles as a pure function
\* the input is a text over the alphabet, or the canonical text of a RoleList
InitParse ==
    /\ cmd = "input"
    /\ group = DefaultGroup
    /\ GlobalSettings = LibrarySettings
    /\ logging = NoLogging
    /\ args = NoArguments
    /\ passed = <<>>
    /\ \/ text \in Texts(MaxLen) /\ rl = None
       \/ \E l \in RoleLists : rl = Some(l) /\ text = Render(l)
    /\ parsed = NoObject
    /\ nodes = <<>>
    /\ st = ""
    /\ kwargs = DefaultKwargs
    /\ flags = DefaultFlags
    /\ gen = EmptyDict
    /\ settings_dict = EmptyDict
    /\ err = ""
    /\ calls = <<>>

ParseRoles ==
    /\ cmd = "input"
    /\ cmd' = "_parse_roles"
    /\ parsed' = _parse_roles(text)
    /\ err' = parsed'.err
    /\ UNCHANGED <<text, rl, nodes, st, kwargs, flags, gen, settings_dict, calls,
                   group, GlobalSettings, logging, args, passed>>

NextParse == ParseRoles

SpecParse == InitParse /\ [][NextParse]_vars

\* ------------------------------------------------------------------ claims
CreateCmds == {"ses5", "ses6", "ses7", "nautilus", "octopus"}

\* the dict iterated in the order p
Reordered(d, p) == [i \in 1..Len(d) |-> d[p[i]]]

\* the set of distinct NodeStates of a deployment, admin included
StateSet(d) == {d[i].status : i \in 1..Len(d)}

\* the deployments whose nodes are listed admin first, then node1, node2, ...
CanonDicts ==
    UNION {{[i \in 1..k |-> [name |-> AllNames[i], status |-> f[i]]] : f \in [1..k -> NodeStates]} :
              k \in 1..MaxNodes}

\* C1: the status shown by list does not depend on the order in which the
\* nodes of the deployment are iterated: every permutation of the nodes
\* gives the same label.
C1_OrderIndependent ==
    cmd = "list" =>
        \A p \in Permutations(1..Len(nodes)) : _status(Reordered(nodes, p)) = st

C1_Witness ==
    /\ cmd = "list"
    /\ Len(nodes) = 3
    /\ AdminStatus(nodes) = "not deployed"
    /\ StateSet(nodes) = {"not deployed", "running", "stopped"}
    /\ st = "partially deployed"

\* C2 as stated: the status depends only on the set of distinct NodeStates
\* present, so every deployment with the same set gets the same label.
C2_SetOnly ==
    cmd = "list" =>
        \A d \in CanonDicts : StateSet(d) = StateSet(nodes) => _status(d) = st

\* C2 amended: the status depends only on the admin node's state and the set
\* of distinct NodeStates present: every deployment with the same admin state
\* and the same set gets the same label, whichever other node holds which
\* state and however many nodes there are.
C2_AdminAndSet ==
    cmd = "list" =>
        \A d \in CanonDicts :
            (AdminStatus(d) = AdminStatus(nodes) /\ StateSet(d) = StateSet(nodes))
                => _status(d) = st

C2_Witness ==
    /\ cmd = "list"
    /\ Len(nodes) = 3
    /\ nodes[3].name = "admin"
    /\ AdminStatus(nodes) = "stopped"
    /\ StateSet(nodes) = {"stopped", "running"}
    /\ st = "partially running"

\* a '[' that no ']' follows
Unterminated(t) ==
    \E i \in 1..Len(t) : t[i] = "[" /\ \A j \in (i + 1)..Len(t) : t[j] # "]"

\* C3: _parse_roles fails on every text in which a bracket group is opened
\* and never closed; it does not return a list for it.
C3_UnterminatedFails ==
    (cmd = "_parse_roles" /\ Unterminated(text)) => parsed.err # ""

\* C4: _parse_roles returns the empty list for the empty text and does not
\* fail.
C4_EmptyText ==
    (cmd = "_parse_roles" /\ text = <<>>) => (parsed.err = "" /\ Value(parsed) = <<>>)

\* The grammar of the role text, spaces allowed around tokens, brackets and
\* commas: one or more groups "[" token ("," token)* "]" separated by ",",
\* every token with a character that is not a space.
\* q: "start" before a group, "pre" in a group before a token, "tok" in a
\* token, "after" behind a group.
RECURSIVE Scan(_, _)
Scan(t, q) ==
    IF t = <<>> THEN q = "after"
    ELSE LET c == Head(t) IN
         IF q = "start"
         THEN IF c = " " THEN Scan(Tail(t), "start")
              ELSE IF c = "[" THEN Scan(Tail(t), "pre") ELSE FALSE
         ELSE IF q = "pre"
         THEN IF c = " " THEN Scan(Tail(t), "pre")
              ELSE IF c \in {"[", "]", ","} THEN FALSE ELSE Scan(Tail(t), "tok")
         ELSE IF q = "tok"
         THEN IF c = "," THEN Scan(Tail(t), "pre")
              ELSE IF c = "]" THEN Scan(Tail(t), "after")
              ELSE IF c = "[" THEN FALSE ELSE Scan(Tail(t), "tok")
         ELSE IF c = " " THEN Scan(Tail(t), "after")
              ELSE IF c = "," THEN Scan(Tail(t), "start") ELSE FALSE

WellFormed(t) == Scan(t, "start")

\* a space at the edge of the text or next to a bracket or a comma
OuterSpace(t, i) ==
    /\ t[i] = " "
    /\ \/ i = 1
       \/ i = Len(t)
       \/ t[i - 1] \in {"[", "]", ","}
       \/ t[i + 1] \in {"[", "]", ","}

Remove(t, i) == SubSeq(t, 1, i - 1) \o SubSeq(t, i + 1, Len(t))

Trimmed(o) ==
    \A i \in 1..Len(o.heap) : \A j \in 1..Len(o.heap[i]) : strip(o.heap[i][j]) = o.heap[i][j]

\* C5: on a well-formed text, _parse_roles returns tokens without leading or
\* trailing whitespace, and removing a space next to a bracket, a comma or
\* the edge of the text does not change the list it returns.
C5_WhitespaceInsignificant ==
    (cmd = "_parse_roles" /\ WellFormed(text)) =>
        /\ parsed.err = ""
        /\ Trimmed(parsed)
        /\ \A i \in 1..Len(text) :
               OuterSpace(text, i) =>
                   LET o == _parse_roles(Remove(text, i))
                   IN o.err = "" /\ Value(o) = Value(parsed)

\* C6: parsing the canonical text of a RoleList returns that RoleList.
C6_RoundTrip ==
    (cmd = "_parse_roles" /\ rl # None) => (parsed.err = "" /\ Value(parsed) = rl[1])

\* C7: with single-node mode the derived settings hold num_disks, at least
\* 3: the count given when it is 3 or more, else 3; without it num_disks is
\* there only when a count was given, and is that count.
C7_DiskFloor ==
    cmd \in CreateCmds =>
        LET n == kwargs.num_disks IN
        /\ kwargs.single_node =>
              /\ err # "AttributeError"
              /\ Has(gen, "num_disks")
              /\ gen["num_disks"] >= 3
              /\ (n # None /\ n[1] >= 3) => gen["num_disks"] = n[1]
              /\ (n = None \/ n[1] < 3) => gen["num_disks"] = 3
        /\ (~kwargs.single_node /\ err # "AttributeError" /\ Has(gen, "num_disks")) =>
              (n # None /\ gen["num_disks"] = n[1])

C7_Witness ==
    /\ cmd \in CreateCmds
    /\ kwargs.single_node
    /\ kwargs.num_disks = Some(2)
    /\ Has(gen, "num_disks")
    /\ gen["num_disks"] = 3

\* C8: create ses5 never fails and always reaches Deployment.create; when
\* the roles key was emitted 'openattic' is appended to the first node and
\* the other nodes are as derived, else the settings are as derived.
C8_Ses5Augment ==
    cmd = "ses5" =>
        /\ err = ""
        /\ \E i \in 1..Len(calls) : calls[i] = "Deployment.create"
        /\ IF Has(gen, "roles")
           THEN /\ Value(settings_dict["roles"])
                       = [Value(gen["roles"]) EXCEPT ![1] = Append(@, openattic)]
                /\ \A k \in DOMAIN gen \ {"roles"} : settings_dict[k] = gen[k]
           ELSE settings_dict = gen

\* C9: destroy and redeploy call the external engine only with --force or
\* after a yes to the prompt; a no aborts the command before its body.
C9_ConfirmedOnly ==
    cmd \in {"destroy", "redeploy"} =>
        /\ calls # <<>> => (flags.force \/ flags.answer)
        /\ (~flags.force /\ ~flags.answer) => (calls = <<>> /\ err = "Abort")

C9_Witness ==
    /\ cmd = "redeploy"
    /\ ~flags.force
    /\ ~flags.answer
    /\ err = "Abort"
    /\ calls = <<>>

\* C10: create ses7 and create octopus hand deployment_tool = 'deepsea' to
\* the engine exactly when --use-deepsea was given.
C10_ToolIffSelected ==
    (cmd \in {"ses7", "octopus"} /\ err = "") =>
        /\ Has(settings_dict, "deployment_tool") <=> flags.use_deepsea
        /\ Has(settings_dict, "deployment_tool") => settings_dict["deployment_tool"] = "deepsea"

====
